---- MODULE Spec2Model ----
(***************************************************************************)
(* Model of utils/__init__.py of the Blender JSON MCP add-on:              *)
(*   - the module body (optional imports, availability flags, logger),     *)
(*   - safe_execute_code,                                                  *)
(*   - register() / unregister().                                          *)
(* Execution is single-threaded; each function is modelled as the sequence *)
(* of its steps, with the position kept in a program counter.              *)
(*                                                                         *)
(* Texts (messages, captured output) are sequences of tokens, so that      *)
(* "text a contains text b" is a contiguous-subsequence test.              *)
(***************************************************************************)
EXTENDS Integers, Sequences, FiniteSets, TLC

\* How often the host re-imports the module in one process (add-on
\* disabled and enabled again).  The logging state survives a re-import.
MaxReloads == 1

VARIABLES
    \* ---- module body ----
    phase,          \* position in the module body
    impIdx,         \* index of the next optional import block (lines 277-328)
    avail,          \* the *_AVAILABLE globals: "unbound", "True" or "False"
    DEBUG_MODE,     \* the global imported at line 20: "unbound", "on", "off"
    namesImport,    \* outcome of the import at lines 17-21
    importResult,   \* outcome of each "from . import m" (and of .performance)
    warned,         \* modules whose failure was reported by log_warning
    handlers,       \* handlers of the "blender_json_mcp" logger (process state)
    setupReturned,  \* number of setup_logging() calls that returned
    loadError,      \* exception that ended the module body, or "none"
    reloads,        \* re-imports so far
    \* ---- safe_execute_code ----
    callPc,         \* position inside safe_execute_code
    success, stdout, stderr, result, error_msg,   \* its locals (lines 88-95)
    SAFE_EXECUTOR_AVAILABLE,                       \* local flag, lines 103-117
    safe_result,    \* dictionary returned by execute_script
    exc,            \* exception being handled
    sysStdout, sysStderr,       \* what sys.stdout / sys.stderr refer to
    oldStdout, oldStderr,       \* targets saved by redirect_stdout/_stderr
    preStdout, preStderr,       \* sys.stdout / sys.stderr when the call began
    loadTrace,      \* load steps taken by the current call, in order
    invoked,        \* was SafeScriptExecutor instantiated / run in this call
    returned,       \* the record handed to the caller, or NoRecord
    \* ---- register / unregister ----
    op,             \* "none", "register", "unregister"
    opIdx,          \* position in the current function (0 = before log_info)
    opState,        \* "idle", "running", "returned", "escaped"
    regCalls,       \* sub-modules whose register() was called by the last register()
    unregCalls,     \* sub-modules whose unregister() was called by the last unregister()
    subRaised,      \* sub-modules whose register()/unregister() raised in the current call
    registered      \* sub-modules currently registered

loadVars == <<phase, impIdx, avail, DEBUG_MODE, namesImport, importResult,
              warned, handlers, setupReturned, loadError, reloads>>
execVars == <<callPc, success, stdout, stderr, result, error_msg,
              SAFE_EXECUTOR_AVAILABLE, safe_result, exc, sysStdout, sysStderr,
              oldStdout, oldStderr, preStdout, preStderr, loadTrace, invoked,
              returned>>
regVars  == <<op, opIdx, opState, regCalls, unregCalls, subRaised, registered>>
vars     == <<loadVars, execVars, regVars>>

(***************************************************************************)
(* Logging helpers (lines 27-71)                                           *)
(***************************************************************************)

\* Exceptions are records of a type name and a message (possibly empty).
Exc(t, m) == [type |-> t, msg |-> m]
\* The outcome of a call that returned normally.
NoExc == Exc("none", "")

\* print() to the process's stdout can fail (closed stream, encoding error,
\* full disk); the exception it raises always carries a message.
PrintError == Exc("OSError", "write failed")
DebugNameError == Exc("NameError", "name 'DEBUG_MODE' is not defined")

ERROR_HANDLER_AVAILABLE == avail["error_handler"] = "True"
ADVANCED_UTILS_AVAILABLE == avail["advanced"] = "True"
INITIALIZE_UTILS_AVAILABLE == avail["initialize_utils"] = "True"
FILE_UTILS_AVAILABLE == avail["fileutils"] = "True"
UI_ERROR_HANDLER_AVAILABLE == avail["ui_error_handler"] = "True"
ASYNC_FILE_HANDLER_AVAILABLE == avail["async_file_handler"] = "True"

\* DebugTest as it would be if an unbound DEBUG_MODE read as false.
DebugTest_UnboundIsFalse(eh, dbg) ==
    IF eh /\ dbg = "on" THEN "debug" ELSE "skip"

\* Outcomes of the test "ERROR_HANDLER_AVAILABLE and DEBUG_MODE" (lines 58, 70)
\* with flag eh and DEBUG_MODE binding dbg: "skip", "debug", or the NameError
\* of reading an unbound global.
DebugTest(eh, dbg) ==
    IF ~eh THEN "skip"
    ELSE IF dbg = "unbound" THEN "NameError"
    ELSE IF dbg = "on" THEN "debug" ELSE "skip"

\* log_info (lines 54-59): logger.info, then print only in debug mode.
\* The set of possible outcomes: NoExc or the exception raised.
log_info(eh, dbg) ==
    CASE DebugTest(eh, dbg) = "NameError" -> {DebugNameError}
      [] DebugTest(eh, dbg) = "debug"     -> {NoExc, PrintError}
      [] OTHER                            -> {NoExc}

\* log_warning (lines 61-64): logger.warning, then print.
log_warning == {NoExc, PrintError}

\* log_error (lines 66-71): logger.error, print, then traceback.print_exc()
\* in debug mode.
log_error(eh, dbg) ==
    CASE DebugTest(eh, dbg) = "NameError" -> {PrintError, DebugNameError}
      [] OTHER                            -> {NoExc, PrintError}

\* setup_logging without the "if not logger.handlers" test.
setup_logging_AlwaysAdds(h, fileOpens) ==
    IF fileOpens THEN [handlers |-> Append(h, "file"), ok |-> TRUE]
                 ELSE [handlers |-> h, ok |-> FALSE]

\* setup_logging (lines 27-48) on handler list h; fileOpens says whether
\* logging.FileHandler could open the log file.  Result: the new handler
\* list and whether the call returned.
setup_logging(h, fileOpens) ==
    IF h = <<>>
    THEN IF fileOpens THEN [handlers |-> <<"file">>, ok |-> TRUE]
                      ELSE [handlers |-> h, ok |-> FALSE]
    ELSE [handlers |-> h, ok |-> TRUE]

(***************************************************************************)
(* Module body                                                             *)
(***************************************************************************)

\* The optional import blocks in program order (lines 277-328).
OptionalModules == <<"error_handler", "advanced", "initialize_utils",
                     "fileutils", "ui_error_handler", "async_file_handler">>
Modules == {OptionalModules[i] : i \in 1..Len(OptionalModules)}
ImportOutcomes == {"ok", "ImportError", "OtherError"}

LoadInit ==
    /\ phase = "names"
    /\ impIdx = 1
    /\ avail = [m \in Modules |-> "unbound"]
    /\ DEBUG_MODE = "unbound"
    /\ namesImport = "pending"
    /\ importResult = [m \in Modules \cup {"performance"} |-> "pending"]
    /\ warned = {}
    /\ handlers = <<>>
    /\ setupReturned = 0
    /\ loadError = "none"
    /\ reloads = 0

\* The module body ends with exception e.
AbortLoad(e) ==
    /\ phase' = "failed"
    /\ loadError' = e

\* Lines 16-24: from .error_handler import (..., DEBUG_MODE).
ImportNames ==
    /\ phase = "names"
    /\ \E r \in ImportOutcomes, dbg \in {"on", "off"} :
         /\ namesImport' = r
         /\ CASE r = "ok" ->
                   /\ avail' = [avail EXCEPT !["error_handler"] = "True"]
                   /\ DEBUG_MODE' = dbg
                   /\ phase' = "logger"
                   /\ UNCHANGED loadError
              [] r = "ImportError" ->
                   /\ avail' = [avail EXCEPT !["error_handler"] = "False"]
                   /\ phase' = "logger"
                   /\ UNCHANGED <<DEBUG_MODE, loadError>>
              [] OTHER ->
                   /\ AbortLoad(r)
                   /\ UNCHANGED <<avail, DEBUG_MODE>>
    /\ UNCHANGED <<impIdx, importResult, warned, handlers, setupReturned, reloads>>
    /\ UNCHANGED <<execVars, regVars>>

\* Line 51: logger = setup_logging().
InitLogger ==
    /\ phase = "logger"
    /\ \E fileOpens \in BOOLEAN :
         LET r == setup_logging(handlers, fileOpens) IN
         /\ handlers' = r.handlers
         /\ IF r.ok
            THEN /\ phase' = "imports"
                 /\ setupReturned' = setupReturned + 1
                 /\ UNCHANGED loadError
            ELSE /\ AbortLoad("PermissionError")
                 /\ UNCHANGED setupReturned
    /\ UNCHANGED <<impIdx, avail, DEBUG_MODE, namesImport, importResult, warned, reloads>>
    /\ UNCHANGED <<execVars, regVars>>

\* Outcomes "from . import m" can have.  error_handler was already imported
\* by line 17 when that import succeeded; when it failed, the module may be
\* absent or may only lack one of the imported names.
ModuleImportOutcomes(m) ==
    IF m = "error_handler" /\ namesImport = "ok" THEN {"ok"} ELSE ImportOutcomes

\* Position after the i-th optional import block.
AfterImport(i) == IF i = Len(OptionalModules) THEN "reexport" ELSE "imports"

\* One optional import block (lines 277-283, 286-292, 295-301, 304-310,
\* 313-319, 322-328): try: import; flag = True; log_info
\* except ImportError: flag = False; log_warning.
ImportOptional ==
    /\ phase = "imports"
    /\ LET m == OptionalModules[impIdx] IN
       \E r \in ModuleImportOutcomes(m) :
         /\ importResult' = [importResult EXCEPT ![m] = r]
         /\ CASE r = "ok" ->
                   /\ avail' = [avail EXCEPT ![m] = "True"]
                   /\ UNCHANGED warned
                   /\ \E o \in log_info(avail'["error_handler"] = "True", DEBUG_MODE) :
                        IF o = NoExc
                        THEN /\ phase' = AfterImport(impIdx)
                             /\ impIdx' = impIdx + 1
                             /\ UNCHANGED loadError
                        ELSE /\ AbortLoad(o.type)
                             /\ UNCHANGED impIdx
              [] r = "ImportError" ->
                   /\ avail' = [avail EXCEPT ![m] = "False"]
                   /\ \E o \in log_warning :
                        IF o = NoExc
                        THEN /\ warned' = warned \cup {m}
                             /\ phase' = AfterImport(impIdx)
                             /\ impIdx' = impIdx + 1
                             /\ UNCHANGED loadError
                        ELSE /\ AbortLoad(o.type)
                             /\ UNCHANGED <<impIdx, warned>>
              [] OTHER ->
                   /\ AbortLoad(r)
                   /\ UNCHANGED <<avail, impIdx, warned>>
    /\ UNCHANGED <<DEBUG_MODE, namesImport, handlers, setupReturned, reloads>>
    /\ UNCHANGED <<execVars, regVars>>

\* Lines 331-362: re-export of the advanced helpers; .performance is
\* imported first, with advanced's own implementation as the fallback.
ReexportAdvanced ==
    /\ phase = "reexport"
    /\ IF ADVANCED_UTILS_AVAILABLE
       THEN \E r \in ImportOutcomes :
              /\ importResult' = [importResult EXCEPT !["performance"] = r]
              /\ CASE r = "ok" ->
                        /\ UNCHANGED warned
                        /\ \E o \in log_info(ERROR_HANDLER_AVAILABLE, DEBUG_MODE) :
                             IF o = NoExc
                             THEN phase' = "loaded" /\ UNCHANGED loadError
                             ELSE AbortLoad(o.type)
                   [] r = "ImportError" ->
                        \E o \in log_warning :
                             IF o = NoExc
                             THEN /\ warned' = warned \cup {"performance"}
                                  /\ phase' = "loaded"
                                  /\ UNCHANGED loadError
                             ELSE AbortLoad(o.type) /\ UNCHANGED warned
                   [] OTHER ->
                        AbortLoad(r) /\ UNCHANGED warned
       ELSE /\ phase' = "loaded"
            /\ UNCHANGED <<importResult, warned, loadError>>
    /\ UNCHANGED <<impIdx, avail, DEBUG_MODE, namesImport, handlers, setupReturned, reloads>>
    /\ UNCHANGED <<execVars, regVars>>

\* The host imports the module again; module globals start afresh, the
\* logging module's state (the logger's handlers) is kept.
Reload ==
    /\ phase \in {"loaded", "failed"}
    /\ reloads < MaxReloads
    /\ reloads' = reloads + 1
    /\ phase' = "names"
    /\ impIdx' = 1
    /\ avail' = [m \in Modules |-> "unbound"]
    /\ DEBUG_MODE' = "unbound"
    /\ namesImport' = "pending"
    /\ importResult' = [m \in Modules \cup {"performance"} |-> "pending"]
    /\ warned' = {}
    /\ loadError' = "none"
    /\ UNCHANGED <<handlers, setupReturned>>
    /\ UNCHANGED <<execVars, regVars>>

LoadNext == ImportNames \/ InitLogger \/ ImportOptional \/ ReexportAdvanced

(***************************************************************************)
(* safe_execute_code (lines 74-169)                                        *)
(***************************************************************************)

\* ---- texts ----
Tok(m) == IF m = "" THEN <<>> ELSE <<m>>
\* print(text, file=buffer)
PrintTo(buffer, text) == buffer \o text \o <<"\n">>
Contains(hay, needle) ==
    \E i \in 0..(Len(hay) - Len(needle)) :
        SubSeq(hay, i + 1, i + Len(needle)) = needle

NotAvailableMsg == <<"Safe script execution is not available">>   \* line 138
UnknownErrorMsg == <<"Unknown error">>                            \* line 131
\* line 150: f"<load error>: {str(e)}"
LoadErrorMsg(e) == <<"safe script executor load error: ">> \o Tok(e.msg)
\* line 157: f"{type(e).__name__}: {str(e)}"
ExcMsg(e) == <<e.type, ": ">> \o Tok(e.msg)
\* traceback.format_exc() while e is handled: the stack, then the exception
\* line, which has no colon when the message is empty.
FormatExc(e) ==
    <<"Traceback (most recent call last):", "\n", "  File ...", "\n">>
    \o (IF e.msg = "" THEN <<e.type>> ELSE <<e.type, ": ", e.msg>>)
    \o <<"\n">>

\* ---- what the helper can hand back ----
\* execute_script returns a dictionary; each key may be missing.
HelperResults ==
    [succ : {"absent", "True", "False"},
     err : {"absent", "given"},
     details : {"absent", "empty", "traceback", "other"},
     res : {"None", "value"}]
HelperErrorMsg == <<"helper error">>
HelperTraceback == <<"helper traceback">>
NoResult == [succ |-> "absent", err |-> "absent", details |-> "absent", res |-> "None"]

\* Exceptions the load or the run can raise (any Exception subclass).
RunExceptions == {Exc("RuntimeError", "boom"), Exc("RuntimeError", "")}

\* line 128: safe_result.get("success", False)
GetSuccess(h) == h.succ = "True"
\* line 129: safe_result.get("result", None)
GetResult(h) == h.res
\* Lines 130-131 without the default of .get("error", "Unknown error").
GetError_NoDefault(h, old) ==
    IF GetSuccess(h) THEN old
    ELSE IF h.err = "given" THEN HelperErrorMsg ELSE old
\* Line 131 without the "if not success" around it.
GetError_Unconditional(h, old) ==
    IF h.err = "given" THEN HelperErrorMsg ELSE UnknownErrorMsg

\* lines 130-131: error_msg stays as it was unless the run failed.
GetError(h, old) ==
    IF GetSuccess(h) THEN old
    ELSE IF h.err = "given" THEN HelperErrorMsg ELSE UnknownErrorMsg
\* lines 132-134: the details traceback is printed to the stderr buffer.
GetStderr(h, old) ==
    IF ~GetSuccess(h) /\ h.details = "traceback"
    THEN PrintTo(old, HelperTraceback) ELSE old

\* ---- the record ----
NoRecord == [none |-> TRUE]
RecordKeys == {"success", "stdout", "stderr", "result", "error"}
\* lines 140-146 and 163-169
MakeRecord(s, out, err, r, e) ==
    [success |-> s, stdout |-> out, stderr |-> err, result |-> r, error |-> e]

\* The streams sys.stdout / sys.stderr can refer to outside the call.
HostStreams == {"console", "hostfile"}

ExecInit ==
    /\ callPc = "idle"
    /\ success = FALSE
    /\ stdout = <<>>
    /\ stderr = <<>>
    /\ result = "None"
    /\ error_msg = <<>>
    /\ SAFE_EXECUTOR_AVAILABLE = "unbound"
    /\ safe_result = NoResult
    /\ exc = NoExc
    /\ sysStdout \in HostStreams
    /\ sysStderr \in HostStreams
    /\ oldStdout = "none"
    /\ oldStderr = "none"
    /\ preStdout = sysStdout
    /\ preStderr = sysStderr
    /\ loadTrace = <<>>
    /\ invoked = FALSE
    /\ returned = NoRecord

\* Lines 84-95: the call begins, the locals are initialised.
Call ==
    /\ phase = "loaded"
    /\ callPc \in {"idle", "returned", "escaped"}
    /\ callPc' = "import"
    /\ success' = FALSE
    /\ stdout' = <<>>
    /\ stderr' = <<>>
    /\ result' = "None"
    /\ error_msg' = <<>>
    /\ SAFE_EXECUTOR_AVAILABLE' = "unbound"
    /\ safe_result' = NoResult
    /\ exc' = NoExc
    /\ preStdout' = sysStdout
    /\ preStderr' = sysStderr
    /\ loadTrace' = <<>>
    /\ invoked' = FALSE
    /\ returned' = NoRecord
    /\ UNCHANGED <<sysStdout, sysStderr, oldStdout, oldStderr>>
    /\ UNCHANGED <<loadVars, regVars>>

\* An exception e reaches the inner "except Exception" (line 148).
ToInner(e) == callPc' = "inner" /\ exc' = e

\* Lines 101-104: the normal import of SafeScriptExecutor.
TryImport ==
    /\ callPc = "import"
    /\ \/ /\ SAFE_EXECUTOR_AVAILABLE' = "True"
          /\ loadTrace' = Append(loadTrace, "import ok")
          /\ callPc' = "check"
          /\ UNCHANGED exc
       \/ /\ callPc' = "disk"
          /\ loadTrace' = Append(loadTrace, "import ImportError")
          /\ UNCHANGED <<SAFE_EXECUTOR_AVAILABLE, exc>>
       \/ /\ \E e \in RunExceptions : ToInner(e)   \* any other exception
          /\ loadTrace' = Append(loadTrace, "import raised")
          /\ UNCHANGED SAFE_EXECUTOR_AVAILABLE
    /\ UNCHANGED <<success, stdout, stderr, result, error_msg, safe_result,
                   sysStdout, sysStderr, oldStdout, oldStderr, preStdout,
                   preStderr, invoked, returned>>
    /\ UNCHANGED <<loadVars, regVars>>

\* Lines 105-117: the ImportError handler; the file is loaded from disk when
\* it exists.
DiskLoad ==
    /\ callPc = "disk"
    /\ \E exists \in BOOLEAN :
         IF exists
         THEN \/ /\ SAFE_EXECUTOR_AVAILABLE' = "True"
                 /\ loadTrace' = Append(loadTrace, "disk ok")
                 /\ callPc' = "check"
                 /\ UNCHANGED exc
              \/ /\ \E e \in RunExceptions : ToInner(e)
                 /\ loadTrace' = Append(loadTrace, "disk raised")
                 /\ UNCHANGED SAFE_EXECUTOR_AVAILABLE
         ELSE /\ SAFE_EXECUTOR_AVAILABLE' = "False"
              /\ loadTrace' = Append(loadTrace, "file missing")
              /\ callPc' = "check"
              /\ UNCHANGED exc
    /\ UNCHANGED <<success, stdout, stderr, result, error_msg, safe_result,
                   sysStdout, sysStderr, oldStdout, oldStderr, preStdout,
                   preStderr, invoked, returned>>
    /\ UNCHANGED <<loadVars, regVars>>

\* The with statement with redirect_stderr left out.
Redirect_StdoutOnly(out, err) ==
    [sysStdout |-> "stdout buffer", sysStderr |-> err,
     oldStdout |-> out, oldStderr |-> err]

\* What "with redirect_stdout(stdout), redirect_stderr(stderr)" makes of the
\* two streams on entry (line 122): the old targets are saved.
Redirect(out, err) ==
    [sysStdout |-> "stdout buffer", sysStderr |-> "stderr buffer",
     oldStdout |-> out, oldStderr |-> err]

\* Lines 120-122: the helper is available; the streams are redirected.
EnterRedirect ==
    /\ callPc = "check"
    /\ SAFE_EXECUTOR_AVAILABLE = "True"
    /\ LET r == Redirect(sysStdout, sysStderr) IN
         /\ sysStdout' = r.sysStdout
         /\ sysStderr' = r.sysStderr
         /\ oldStdout' = r.oldStdout
         /\ oldStderr' = r.oldStderr
    /\ callPc' = "invoke"
    /\ UNCHANGED <<success, stdout, stderr, result, error_msg,
                   SAFE_EXECUTOR_AVAILABLE, safe_result, exc, preStdout,
                   preStderr, loadTrace, invoked, returned>>
    /\ UNCHANGED <<loadVars, regVars>>

\* Leaving the with block, normally or by an exception: the saved targets are
\* put back.
LeaveRedirect ==
    /\ sysStdout' = oldStdout
    /\ sysStderr' = oldStderr
    /\ oldStdout' = "none"
    /\ oldStderr' = "none"

\* Where text written to sys.stdout ends up.
WriteStdout(text) ==
    IF sysStdout = "stdout buffer" THEN stdout \o text ELSE stdout

\* Lines 124-125: SafeScriptExecutor() and execute_script(code_string).
\* The script may write to sys.stdout; the helper returns a dictionary or
\* raises.
Invoke ==
    /\ callPc = "invoke"
    /\ invoked' = TRUE
    /\ \E prints \in BOOLEAN :
         stdout' = IF prints THEN WriteStdout(<<"script output", "\n">>) ELSE stdout
    /\ \/ /\ \E h \in HelperResults : safe_result' = h
          /\ callPc' = "normalize"
          /\ UNCHANGED <<exc, sysStdout, sysStderr, oldStdout, oldStderr>>
       \/ /\ \E e \in RunExceptions : ToInner(e)
          /\ LeaveRedirect
          /\ UNCHANGED safe_result
    /\ UNCHANGED <<success, stderr, result, error_msg, SAFE_EXECUTOR_AVAILABLE,
                   preStdout, preStderr, loadTrace, returned>>
    /\ UNCHANGED <<loadVars, regVars>>

\* Lines 127-134, then the end of the with block.
Normalize ==
    /\ callPc = "normalize"
    /\ success' = GetSuccess(safe_result)
    /\ result' = GetResult(safe_result)
    /\ error_msg' = GetError(safe_result, error_msg)
    /\ stderr' = GetStderr(safe_result, stderr)
    /\ LeaveRedirect
    /\ callPc' = "build"
    /\ UNCHANGED <<stdout, SAFE_EXECUTOR_AVAILABLE, safe_result, exc, preStdout,
                   preStderr, loadTrace, invoked, returned>>
    /\ UNCHANGED <<loadVars, regVars>>

\* Lines 135-146: the helper is not available.
Fallback ==
    /\ callPc = "check"
    /\ SAFE_EXECUTOR_AVAILABLE = "False"
    /\ \E o \in log_warning :
         IF o = NoExc
         THEN /\ error_msg' = NotAvailableMsg
              /\ success' = FALSE
              /\ returned' = MakeRecord(success', stdout, stderr, "None", error_msg')
              /\ callPc' = "returned"
              /\ UNCHANGED exc
         ELSE /\ ToInner(o)
              /\ UNCHANGED <<error_msg, success, returned>>
    /\ UNCHANGED <<stdout, stderr, result, SAFE_EXECUTOR_AVAILABLE, safe_result,
                   sysStdout, sysStderr, oldStdout, oldStderr, preStdout,
                   preStderr, loadTrace, invoked>>
    /\ UNCHANGED <<loadVars, regVars>>

\* Lines 148-154: the inner handler.  An exception raised by log_error
\* leaves it before success is reset and goes to the outer handler.
InnerHandler ==
    /\ callPc = "inner"
    /\ error_msg' = LoadErrorMsg(exc)
    /\ \E o \in log_error(ERROR_HANDLER_AVAILABLE, DEBUG_MODE) :
         IF o = NoExc
         THEN /\ success' = FALSE
              /\ stderr' = PrintTo(PrintTo(stderr, error_msg'), FormatExc(exc))
              /\ callPc' = "build"
              /\ UNCHANGED exc
         ELSE /\ callPc' = "outer"
              /\ exc' = o
              /\ UNCHANGED <<success, stderr>>
    /\ UNCHANGED <<stdout, result, SAFE_EXECUTOR_AVAILABLE, safe_result,
                   sysStdout, sysStderr, oldStdout, oldStderr, preStdout,
                   preStderr, loadTrace, invoked, returned>>
    /\ UNCHANGED <<loadVars, regVars>>

\* Lines 156-160: the outer handler.  log_error and traceback.print_exc()
\* write to the process's streams; an exception they raise leaves the
\* function.
OuterHandler ==
    /\ callPc = "outer"
    /\ error_msg' = ExcMsg(exc)
    /\ \E o \in log_error(ERROR_HANDLER_AVAILABLE, DEBUG_MODE) \cup {PrintError} :
         IF o = NoExc
         THEN /\ stderr' = PrintTo(stderr, FormatExc(exc))
              /\ callPc' = "build"
              /\ UNCHANGED exc
         ELSE /\ callPc' = "escaped"
              /\ exc' = o
              /\ UNCHANGED stderr
    /\ UNCHANGED <<success, stdout, result, SAFE_EXECUTOR_AVAILABLE, safe_result,
                   sysStdout, sysStderr, oldStdout, oldStderr, preStdout,
                   preStderr, loadTrace, invoked, returned>>
    /\ UNCHANGED <<loadVars, regVars>>

\* Lines 162-169: the record is built and returned.
Return ==
    /\ callPc = "build"
    /\ returned' = MakeRecord(success, stdout, stderr, result, error_msg)
    /\ callPc' = "returned"
    /\ UNCHANGED <<success, stdout, stderr, result, error_msg,
                   SAFE_EXECUTOR_AVAILABLE, safe_result, exc, sysStdout,
                   sysStderr, oldStdout, oldStderr, preStdout, preStderr,
                   loadTrace, invoked>>
    /\ UNCHANGED <<loadVars, regVars>>

ExecNext ==
    \/ Call \/ TryImport \/ DiskLoad \/ EnterRedirect \/ Invoke \/ Normalize
    \/ Fallback \/ InnerHandler \/ OuterHandler \/ Return

(***************************************************************************)
(* register() / unregister() (lines 364-442)                               *)
(***************************************************************************)

\* The sub-modules in the order register() visits them (lines 369-401).
RegisterOrder == <<"error_handler", "advanced", "fileutils",
                   "ui_error_handler", "async_file_handler">>
\* The sub-modules in the order unregister() visits them (lines 410-442).
UnregisterOrder == <<"async_file_handler", "ui_error_handler", "fileutils",
                     "advanced", "error_handler">>

RegInit ==
    /\ op = "none"
    /\ opIdx = 0
    /\ opState = "idle"
    /\ regCalls = <<>>
    /\ unregCalls = <<>>
    /\ subRaised = {}
    /\ registered = {}

\* The function's opening log_info (lines 366, 405): it returns, or its
\* exception leaves the function.
Begin(name) ==
    /\ op' = name
    /\ subRaised' = {}
    /\ \E o \in log_info(ERROR_HANDLER_AVAILABLE, DEBUG_MODE) :
         IF o = NoExc
         THEN opState' = "running" /\ opIdx' = 1
         ELSE opState' = "escaped" /\ opIdx' = 0

\* Position after block i of a function with n blocks.
StepDone(i, n) ==
    /\ opIdx' = i + 1
    /\ opState' = IF i = n THEN "returned" ELSE "running"

\* The guard of one block: "if <FLAG>_AVAILABLE:" (lines 369, 376, 383, 390,
\* 397 and 410, 417, 424, 431, 438).
Guard(m) == avail[m] = "True"

\* The host enables the add-on: register() begins (lines 364-366).
RegisterBegin ==
    /\ phase = "loaded"
    /\ \/ op \in {"none", "unregister"} /\ opState \in {"idle", "returned", "escaped"}
       \/ op = "register" /\ opState = "escaped"
    /\ Begin("register")
    /\ regCalls' = <<>>
    /\ UNCHANGED <<unregCalls, registered>>
    /\ UNCHANGED <<loadVars, execVars>>

\* One block of register(): if the flag is set, try m.register(), and on an
\* exception log_error (lines 369-373 and the four blocks after it).
RegisterStep ==
    /\ op = "register"
    /\ opState = "running"
    /\ LET m == RegisterOrder[opIdx] IN
       IF Guard(m)
       THEN /\ regCalls' = Append(regCalls, m)
            /\ \/ /\ registered' = registered \cup {m}      \* returned
                  /\ StepDone(opIdx, Len(RegisterOrder))
                  /\ UNCHANGED subRaised
               \/ /\ subRaised' = subRaised \cup {m}         \* raised
                  /\ UNCHANGED registered
                  /\ \E o \in log_error(ERROR_HANDLER_AVAILABLE, DEBUG_MODE) :
                       IF o = NoExc
                       THEN StepDone(opIdx, Len(RegisterOrder))
                       ELSE opState' = "escaped" /\ UNCHANGED opIdx
       ELSE /\ StepDone(opIdx, Len(RegisterOrder))
            /\ UNCHANGED <<regCalls, subRaised, registered>>
    /\ UNCHANGED <<op, unregCalls>>
    /\ UNCHANGED <<loadVars, execVars>>

\* The host disables the add-on after a register() that returned:
\* unregister() begins (lines 403-405).
UnregisterBegin ==
    /\ phase = "loaded"
    /\ op = "register"
    /\ opState = "returned"
    /\ Begin("unregister")
    /\ unregCalls' = <<>>
    /\ UNCHANGED <<regCalls, registered>>
    /\ UNCHANGED <<loadVars, execVars>>

\* One block of unregister() (lines 410-414 and the four blocks after it).
UnregisterStep ==
    /\ op = "unregister"
    /\ opState = "running"
    /\ LET m == UnregisterOrder[opIdx] IN
       IF Guard(m)
       THEN /\ unregCalls' = Append(unregCalls, m)
            /\ \/ /\ registered' = registered \ {m}          \* returned
                  /\ StepDone(opIdx, Len(UnregisterOrder))
                  /\ UNCHANGED subRaised
               \/ /\ subRaised' = subRaised \cup {m}         \* raised
                  /\ UNCHANGED registered
                  /\ \E o \in log_error(ERROR_HANDLER_AVAILABLE, DEBUG_MODE) :
                       IF o = NoExc
                       THEN StepDone(opIdx, Len(UnregisterOrder))
                       ELSE opState' = "escaped" /\ UNCHANGED opIdx
       ELSE /\ StepDone(opIdx, Len(UnregisterOrder))
            /\ UNCHANGED <<unregCalls, subRaised, registered>>
    /\ UNCHANGED <<op, regCalls>>
    /\ UNCHANGED <<loadVars, execVars>>

RegNext == RegisterBegin \/ RegisterStep \/ UnregisterBegin \/ UnregisterStep

(***************************************************************************)
(* Specifications                                                          *)
(***************************************************************************)

\* The three groups of actions write disjoint variables and a function runs
\* to its end before the host calls the next one, so each function is
\* checked in a specification of its own, after the module body.
Init == LoadInit /\ ExecInit /\ RegInit

\* The module body, imported and re-imported.
SpecLoad == Init /\ [][LoadNext \/ Reload]_vars
\* The module body, then calls of safe_execute_code.
SpecExec == Init /\ [][LoadNext \/ ExecNext]_vars
\* The module body, then the add-on lifecycle.
SpecReg == Init /\ [][LoadNext \/ RegNext]_vars

(***************************************************************************)
(* Properties of safe_execute_code, checked under SpecExec                 *)
(***************************************************************************)

\* A call has ended, by a return or by an exception leaving the function.
CallEnded == callPc \in {"returned", "escaped"}
\* The helper ran and returned its dictionary (no exception in this call).
HelperReturned == invoked /\ exc = NoExc

\* C1: every call of safe_execute_code ends by returning a record with
\* exactly the five keys success, stdout, stderr, result and error; no
\* exception leaves the function, whatever the load, the run and the log
\* calls of the handlers do.
C1_AlwaysReturnsRecord ==
    /\ callPc # "escaped"
    /\ callPc = "returned" => DOMAIN returned = RecordKeys

\* C2: the normal import comes first and the load from disk is attempted
\* only after it raised ImportError and the file exists; when the import
\* fails and the file is missing the helper is never instantiated or run and
\* the call returns success False, result None, the "not available" error and
\* empty stdout and stderr.
C2_LoadOrderAndFallback ==
    /\ \A i \in 1..Len(loadTrace) :
         loadTrace[i] \in {"disk ok", "disk raised", "file missing"}
            => i = 2 /\ loadTrace[1] = "import ImportError"
    /\ loadTrace = <<"import ImportError", "file missing">> => ~invoked
    /\ (CallEnded /\ loadTrace = <<"import ImportError", "file missing">>)
         => /\ callPc = "returned"
            /\ returned = MakeRecord(FALSE, <<>>, <<>>, "None", NotAvailableMsg)

\* C3: execute_script is invoked only after the load succeeded and only
\* while sys.stdout and sys.stderr are the call's two buffers, and when the
\* call has ended (by a return or by an exception) sys.stdout and sys.stderr
\* are the streams they were when it began.
C3_RedirectedRunAndRestore ==
    /\ callPc = "invoke" =>
         /\ SAFE_EXECUTOR_AVAILABLE = "True"
         /\ loadTrace[Len(loadTrace)] \in {"import ok", "disk ok"}
         /\ sysStdout = "stdout buffer"
         /\ sysStderr = "stderr buffer"
    /\ invoked => SAFE_EXECUTOR_AVAILABLE = "True"
    /\ callPc \in {"idle", "import", "disk", "check", "inner", "outer", "build",
                   "returned", "escaped"} =>
         /\ sysStdout = preStdout
         /\ sysStderr = preStderr

\* Witness of C3: a call whose helper raised has returned, the streams having
\* been redirected away from a host-chosen file and put back.
C3_Witness ==
    /\ callPc = "returned"
    /\ invoked
    /\ exc \in RunExceptions
    /\ preStdout = "hostfile"
    /\ sysStdout = "hostfile"
    /\ preStderr = "console"

\* C7: a helper result that reports failure (success false or missing) gives
\* a record with success false, the helper's error or "Unknown error", and
\* the details traceback, when present, in stderr; an exception of the load
\* or the run gives a record with success False, result None, a non-empty
\* error and a stderr containing that error.
C7_FailuresNormalized ==
    callPc = "returned" =>
      /\ (HelperReturned /\ safe_result.succ # "True") =>
           /\ returned.success = FALSE
           /\ returned.error = (IF safe_result.err = "given"
                                THEN HelperErrorMsg ELSE UnknownErrorMsg)
           /\ safe_result.details = "traceback"
                => Contains(returned.stderr, HelperTraceback)
      /\ exc # NoExc =>
           /\ returned.success = FALSE
           /\ returned.result = "None"
           /\ returned.error # <<>>
           /\ Contains(returned.stderr, returned.error)

\* Witness of C7: the helper reported a failure without an error value but
\* with a traceback, and the record is back.
C7_Witness ==
    /\ callPc = "returned"
    /\ HelperReturned
    /\ safe_result.succ = "absent"
    /\ safe_result.err = "absent"
    /\ safe_result.details = "traceback"
    /\ returned.error = UnknownErrorMsg

\* C8: in every record returned, success true implies an empty error, also
\* when the record is built after the outer handler ran.
C8_SuccessHasNoError ==
    callPc = "returned" => (returned.success => returned.error = <<>>)

\* Witness of C8: a successful run whose dictionary also carried an error
\* value has returned.
C8_Witness ==
    /\ callPc = "returned"
    /\ returned.success
    /\ safe_result.err = "given"
    /\ safe_result.res = "value"

(***************************************************************************)
(* Properties of the module body, checked under SpecLoad                   *)
(***************************************************************************)

\* C4: once the module body has finished, a flag whose import failed is
\* False, and ERROR_HANDLER_AVAILABLE is not True while DEBUG_MODE is
\* unbound because the import of the names failed.
C4_FlagsFalseOnFailure ==
    phase = "loaded" =>
      /\ \A m \in Modules : importResult[m] = "ImportError" => avail[m] = "False"
      /\ \A m \in Modules : avail[m] = "True" => importResult[m] = "ok"
      /\ namesImport = "ImportError" => ~ERROR_HANDLER_AVAILABLE
      /\ ERROR_HANDLER_AVAILABLE => DEBUG_MODE # "unbound"

\* Witness of C4: the body finished although the import of the names and
\* another optional import failed.
C4_Witness ==
    /\ phase = "loaded"
    /\ namesImport = "ImportError"
    /\ importResult["error_handler"] = "ImportError"
    /\ importResult["fileutils"] = "ImportError"
    /\ ADVANCED_UTILS_AVAILABLE

\* C5: whatever sub-modules fail with ImportError, each failure is logged as
\* a warning and clears its flag, every later optional import is attempted,
\* and the module body completes without raising.  (Stated for the loads in
\* which the log file opens, every print succeeds and no import raises
\* anything but ImportError: then the body must reach its end.)
C5_ImportErrorsTolerated ==
    /\ phase = "failed" =>
         \/ loadError \in {"PermissionError", "OSError"}
         \/ namesImport = "OtherError"
         \/ \E m \in DOMAIN importResult : importResult[m] = "OtherError"
    /\ phase = "loaded" =>
         \A m \in Modules :
            /\ importResult[m] # "pending"
            /\ importResult[m] = "ImportError" => avail[m] = "False" /\ m \in warned

\* C10: after any number of setup_logging() calls that began with a logger
\* without handlers the logger has exactly one file handler, and a call made
\* when the logger has a handler leaves the handler list as it is.
C10_SetupLoggingIdempotent ==
    /\ [](setupReturned >= 1 => handlers = <<"file">>)
    /\ [][handlers # <<>> => handlers' = handlers]_vars

\* Witness of C10: setup_logging() has returned twice.
C10_Witness ==
    /\ setupReturned = 2
    /\ handlers = <<"file">>

(***************************************************************************)
(* Properties of register() / unregister(), checked under SpecReg          *)
(***************************************************************************)

Reverse(s) == [i \in 1..Len(s) |-> s[Len(s) + 1 - i]]
Range(s) == {s[i] : i \in 1..Len(s)}
\* The sub-modules of order o whose flag is set, in that order.
RECURSIVE AvailableIn(_)
AvailableIn(o) ==
    IF o = <<>> THEN <<>>
    ELSE (IF avail[Head(o)] = "True" THEN <<Head(o)>> ELSE <<>>)
         \o AvailableIn(Tail(o))

\* C6: the sub-modules whose unregister() is called by unregister() are,
\* in order, the reverse of those whose register() was called by the
\* register() before it, so that each of these is deregistered.  (Stated for
\* the unregister() calls that got past their opening log_info.)
C6_ReverseOrder ==
    (op = "unregister" /\ (opState = "returned" \/ (opState = "escaped" /\ opIdx >= 1))) =>
       /\ unregCalls = Reverse(regCalls)
       /\ Range(regCalls) \subseteq Range(unregCalls)

\* C9: a sub-module's register()/unregister() is called only when its flag
\* is True, and an exception it raises neither leaves register() /
\* unregister() nor keeps the remaining available sub-modules from being
\* called.
C9_GuardedAndContained ==
    /\ \A m \in Range(regCalls) \cup Range(unregCalls) : avail[m] = "True"
    /\ ~(opState = "escaped" /\ subRaised # {})
    /\ (op = "register" /\ opState = "returned")
          => regCalls = AvailableIn(RegisterOrder)
    /\ (op = "unregister" /\ opState = "returned")
          => unregCalls = AvailableIn(UnregisterOrder)

====
